---- MODULE Spec2Model ----
(***************************************************************************)
(* Model of waktu-solat-mcp: the WaktuSolatAPI client (api.py) and the     *)
(* four MCP tools built on it (server.py).                                 *)
(*                                                                         *)
(* Four specifications share the definitions below:                        *)
(*   Spec        concurrent tool invocations, each inside `get_api()`      *)
(*   SpecClient  concurrent callers of one WaktuSolatAPI instance          *)
(*   SpecSched   the tools' formatting stage over fetched schedules        *)
(*   SpecZone    zone-argument normalisation and request construction      *)
(***************************************************************************)
EXTENDS Integers, Sequences, FiniteSets, TLC

\* ------------------------------------------------------------------ bounds
MaxLen == 2        \* longest zone argument, in characters
MaxEntries == 2    \* most day entries in one fetched schedule
MaxStamps == 2     \* most prayer timestamps present in one fetched schedule
MaxInv == 2        \* simultaneous tool invocations
MaxTasks == 2      \* simultaneous callers of one client

\* Python's None, and the value dict.get() yields for an absent key.  Years,
\* months, days and timestamps of the model are all >= 0.
None == -1

\* ------------------------------------------------------- strings (str methods)
\* A string is a sequence of one-character strings; "" and an omitted optional
\* string argument are both <<>> (both are falsy where the code tests them).
Alphabet == {"s", "S", "1", " "}
Whitespace == {" "}

Strings(n) == UNION {[1..k -> Alphabet] : k \in 0..n}

UpperChar(c) == IF c = "s" THEN "S" ELSE c

Upper(s) == [i \in 1..Len(s) |-> UpperChar(s[i])]

RECURSIVE LStrip(_)
LStrip(s) == IF s # <<>> /\ Head(s) \in Whitespace THEN LStrip(Tail(s)) ELSE s

RECURSIVE RStrip(_)
RStrip(s) ==
    IF s # <<>> /\ s[Len(s)] \in Whitespace THEN RStrip(SubSeq(s, 1, Len(s) - 1)) ELSE s

Strip(s) == RStrip(LStrip(s))

\* ------------------------------------------------------------ api.py: URLs
\* An f-string URL is kept as its parts: the path segments and the query values.
Url(path, query) == [path |-> path, query |-> query]

\* WaktuSolatAPI.get_prayer_times, up to the call of _fetch
PrayerTimesUrl(zone, year, month) ==
    LET z == Upper(zone)
    IN  IF year # None /\ month # None
        THEN Url(<<"v2", "solat", z>>, <<year, month>>)
        ELSE Url(<<"v2", "solat", z>>, <<>>)

\* WaktuSolatAPI.get_zones, up to the call of _fetch
ZonesUrl(state) ==
    IF state # <<>>
    THEN Url(<<"zones", Upper(state)>>, <<>>)
    ELSE Url(<<"zones">>, <<>>)

\* --------------------------------------------------- server.py: tool arguments
ZoneTools == {"get_prayer_times_today", "get_prayer_times_month", "get_next_prayer"}
Tools == ZoneTools \cup {"list_zones"}

\* zone = zone.strip().upper()   (a variant without the strip follows)
NormalizeZoneNoStrip(zone) == Upper(zone)

NormalizeZone(zone) == Upper(Strip(zone))

\* The URL a tool requests for its arguments.
ToolUrl(tool, arg, year, month) ==
    CASE tool = "get_prayer_times_month" -> PrayerTimesUrl(NormalizeZone(arg), year, month)
      [] tool = "list_zones"             -> ZonesUrl(arg)
      [] OTHER                           -> PrayerTimesUrl(NormalizeZone(arg), None, None)

\* ------------------------------------------------------------- JSON values
\* A decoded JSON value carries its Python type: t is "dict" (f: its fields),
\* "list" (items), or "null".
JDict(fields) == [t |-> "dict", f |-> fields]
JList(items) == [t |-> "list", items |-> items]
JNull == [t |-> "null"]

\* dict.get(key, default)
DictGet(d, key, default) == IF key \in DOMAIN d.f THEN d.f[key] ELSE default

\* What a tool invocation ends with: the text it returns, or the exception that
\* leaves the tool function.
Text(r) == [status |-> "text", text |-> r]
Fault(e) == [status |-> "fault", error |-> e]

\* ------------------------------------------------ server.py: formatting stage
Kinds == <<"fajr", "syuruk", "dhuhr", "asr", "maghrib", "isha">>

PRAYER_NAMES ==
    [fajr |-> "Subuh/Fajr", syuruk |-> "Syuruk/Sunrise", dhuhr |-> "Zohor/Dhuhr",
     asr |-> "Asar/Asr", maghrib |-> "Maghrib", isha |-> "Isyak/Isha"]

\* the labels of get_next_prayer's own prayer_order list
prayer_order ==
    [fajr |-> "Subuh/Fajr", syuruk |-> "Syuruk", dhuhr |-> "Zohor/Dhuhr",
     asr |-> "Asar/Asr", maghrib |-> "Maghrib", isha |-> "Isyak/Isha"]

\* MYT = timezone(timedelta(hours=8)), in seconds
MYT == 28800

\* _timestamp_to_myt_str: strftime("%I:%M %p") of the timestamp in MYT
TimestampToMytStr(ts) ==
    LET secs == (ts + MYT) % 86400
        h24 == secs \div 3600
        h12 == IF h24 % 12 = 0 THEN 12 ELSE h24 % 12
    IN  <<h12, (secs % 3600) \div 60, IF h24 < 12 THEN "AM" ELSE "PM">>

\* Python truthiness of an optional timestamp: None and 0 are falsy
Truthy(ts) == ts # None /\ ts # 0

\* next((p for p in prayers_list if p["day"] == day), None): the index of the
\* first entry of that day, 0 for None
IndexOfDay(prayers_list, day) ==
    LET hits == {i \in 1..Len(prayers_list) : prayers_list[i].day = day}
    IN  IF hits = {} THEN 0 ELSE CHOOSE i \in hits : \A j \in hits : i <= j

\* max(p.get('day', 0) for p in prayers_list), of a non-empty list
MaxDayOf(prayers_list) ==
    CHOOSE d \in {prayers_list[i].day : i \in 1..Len(prayers_list)} :
        \A i \in 1..Len(prayers_list) : prayers_list[i].day <= d

\* the countdown of get_next_prayer: int(ts - now_ts), two divmods, "Xh Ym" or "Ym"
RemainingStr(ts, now_ts) ==
    LET remaining == ts - now_ts
        mins0 == remaining \div 60
        hrs == mins0 \div 60
        mins == mins0 % 60
    IN  IF hrs > 0 THEN <<hrs, mins>> ELSE <<mins>>

\* get_prayer_times_today, after the client is released
RECURSIVE TimeLines(_, _)
TimeLines(entry, k) ==
    IF k > Len(Kinds) THEN <<>>
    ELSE LET key == Kinds[k]
             ts == entry[key]
         IN  IF ts # None
             THEN <<[label |-> PRAYER_NAMES[key], at |-> TimestampToMytStr(ts)]>>
                      \o TimeLines(entry, k + 1)
             ELSE TimeLines(entry, k + 1)

TodayText(data, zone, today) ==
    IF data.t # "dict" THEN Fault("AttributeError")
    ELSE
    LET zone_name == DictGet(data, "zone", zone)
        prayers_list == DictGet(data, "prayers", <<>>)
        i == IndexOfDay(prayers_list, today)
    IN  IF i = 0
        THEN IF prayers_list = <<>>
             THEN Fault("ValueError")      \* max() of an empty sequence
             ELSE LET m == MaxDayOf(prayers_list)
                  IN  Text([kind |-> "no_today", zone |-> zone_name,
                            lastDay |-> IF m = 0 THEN 28 ELSE m])
        ELSE Text([kind |-> "today", zone |-> zone_name, day |-> today,
                   lines |-> TimeLines(prayers_list[i], 1)])

\* get_next_prayer's loop over prayer_order from position k on: the position of
\* the first kind whose timestamp is present and after now, 0 when the loop
\* falls through
RECURSIVE Scan(_, _, _)
Scan(entry, now_ts, k) ==
    IF k > Len(Kinds) THEN 0
    ELSE IF entry[Kinds[k]] # None /\ entry[Kinds[k]] > now_ts THEN k
    ELSE Scan(entry, now_ts, k + 1)

\* (faulty variant: the loop takes the first timestamp that is present)
RECURSIVE ScanPresent(_, _)
ScanPresent(entry, k) ==
    IF k > Len(Kinds) THEN 0
    ELSE IF entry[Kinds[k]] # None THEN k
    ELSE ScanPresent(entry, k + 1)

FirstPresent(entry, now_ts) == ScanPresent(entry, 1)

FirstUpcoming(entry, now_ts) == Scan(entry, now_ts, 1)

\* (faulty variant: tomorrow's dawn is tested with `is not None`)
HasTomorrowFajrNotNone(prayers_list, today) ==
    LET j == IndexOfDay(prayers_list, today + 1)
    IN  j # 0 /\ prayers_list[j].fajr # None

\* if tomorrow_entry and tomorrow_entry.get("fajr")
HasTomorrowFajr(prayers_list, today) ==
    LET j == IndexOfDay(prayers_list, today + 1)
    IN  j # 0 /\ Truthy(prayers_list[j].fajr)

\* get_next_prayer, after the client is released
NextText(data, zone, today, now_ts) ==
    IF data.t # "dict" THEN Fault("AttributeError")
    ELSE
    LET prayers_list == DictGet(data, "prayers", <<>>)
        i == IndexOfDay(prayers_list, today)
    IN  IF i = 0 THEN Text([kind |-> "no_data", zone |-> zone])
        ELSE
        LET k == FirstUpcoming(prayers_list[i], now_ts)
        IN  IF k # 0
            THEN LET ts == prayers_list[i][Kinds[k]]
                 IN  Text([kind |-> "next", label |-> prayer_order[Kinds[k]],
                           at |-> TimestampToMytStr(ts),
                           remaining |-> RemainingStr(ts, now_ts)])
            ELSE IF HasTomorrowFajr(prayers_list, today)
            THEN LET ts == prayers_list[IndexOfDay(prayers_list, today + 1)].fajr
                 IN  Text([kind |-> "tomorrow", label |-> "Subuh/Fajr",
                           at |-> TimestampToMytStr(ts),
                           remaining |-> RemainingStr(ts, now_ts)])
            ELSE Text([kind |-> "exhausted"])

\* get_prayer_times_month, after the client is released: one row per entry,
\* a cell being "-" (<<>> here) when the timestamp is falsy
MonthCell(ts) == IF Truthy(ts) THEN TimestampToMytStr(ts) ELSE <<>>

MonthText(data, zone, year, month) ==
    IF data.t # "dict" THEN Fault("AttributeError")
    ELSE
    LET prayers_list == DictGet(data, "prayers", <<>>)
    IN  Text([kind |-> "month", zone |-> DictGet(data, "zone", zone),
              month |-> DictGet(data, "month", month), year |-> year,
              rows |-> [i \in 1..Len(prayers_list) |->
                          [day |-> prayers_list[i].day,
                           cells |-> [k \in 1..Len(Kinds) |->
                                        MonthCell(prayers_list[i][Kinds[k]])]]]])

\* -------------------------------------------------- api.py: the fetch pipeline
\* What the upstream (or the transport) answers to one client.get(url).
Absent == [t |-> "absent"]      \* no entry under a key of self._cache
NotJson == [t |-> "notjson"]    \* a body response.json() cannot decode
NoError == [type |-> "none"]

HttpResponse(status, reason, body) ==
    [kind |-> "http", status |-> status, reason |-> reason, body |-> body]
TransportFailure == [kind |-> "transport", status |-> 0, reason |-> "", body |-> NotJson]
NoResponse == [kind |-> "none", status |-> 0, reason |-> "", body |-> NotJson]

\* (faulty variant: only error statuses are rejected)
StatusBelow400(status) == status < 400

\* if response.status_code != 200: raise
StatusOk(status) == status = 200

\* How _fetch ends: "ok" with the decoded data, "apierror" with the
\* WaktuSolatAPIError it raises, or "fault" with any other exception.
Got(kind, data, error) == [kind |-> kind, data |-> data, error |-> error]

\* _fetch from the resumption of `await client.get(url)` on
FetchOutcome(resp, url) ==
    IF resp.kind = "transport"
    THEN Got("fault", Absent, [type |-> "httpx.TransportError"])
    ELSE IF ~StatusOk(resp.status)
    THEN Got("apierror", Absent,
             [type |-> "WaktuSolatAPIError", status |-> resp.status,
              reason |-> resp.reason, url |-> url])
    ELSE IF resp.body = NotJson
    THEN Got("fault", Absent, [type |-> "JSONDecodeError"])
    ELSE Got("ok", resp.body, NoError)

\* (faulty variant: the cache is keyed by the path alone)
CacheKeyPathOnly(url) == Url(url.path, <<>>)

\* the key of self._cache: the URL string itself
CacheKey(url) == url

\* get_zones, after _fetch: the three isinstance branches
ZonesOf(data) ==
    IF data.t = "list" THEN data
    ELSE IF data.t = "dict" /\ "zones" \in DOMAIN data.f THEN data.f.zones
    ELSE IF data.t = "dict" THEN JList(<<data>>) ELSE JList(<<>>)

\* what a caller of get_prayer_times / get_zones sees
Returned(v) == [status |-> "returned", value |-> v, error |-> NoError]
Raised(e) == [status |-> "raised", value |-> Absent, error |-> e]

ResultOf(name, got) ==
    IF got.kind # "ok" THEN Raised(got.error)
    ELSE IF name = "get_zones" THEN Returned(ZonesOf(got.data))
    ELSE Returned(got.data)

\* ================================================================ state
VARIABLES
    \* SpecZone: two invocations of one zone-taking tool
    zpc, zTool, zYear, zMonth, zArgA, zArgB, zReqA, zReqB,
    \* SpecSched: one fetched body, the clock, and what each tool makes of it
    spc, sData, sToday, sNow, sTool, sResult,
    \* Spec and SpecClient
    apis,       \* the WaktuSolatAPI objects made so far: [client, cache]
    conns,      \* the httpx.AsyncClient objects made so far: TRUE while open
    pc,         \* where each task (tool invocation, or caller of the client) is
    op,         \* the tool or client method the task runs
    tUrl,       \* the URL of its fetch
    tApi,       \* the WaktuSolatAPI it uses (index into apis)
    tConn,      \* the httpx client its request went out on (index into conns)
    tResp,      \* the response its request received
    tGot,       \* how its _fetch ended
    result,     \* what the task ended with
    netCalls,   \* history: client.get calls issued, per URL
    lastOk,     \* history: per URL, the data of the last fetch that succeeded
    closeCalls, \* history: close() calls, per WaktuSolatAPI
    nOps,       \* operations started so far
    actor       \* history: the task that started the latest operation

zoneVars == <<zpc, zTool, zYear, zMonth, zArgA, zArgB, zReqA, zReqB>>
schedVars == <<spc, sData, sToday, sNow, sTool, sResult>>
sysVars == <<apis, conns, pc, op, tUrl, tApi, tConn, tResp, tGot, result,
             netCalls, lastOk, closeCalls, nOps, actor>>
vars == <<zoneVars, schedVars, sysVars>>

NoUrl == Url(<<>>, <<>>)
NoResult == [status |-> "none"]

ZoneIdle ==
    /\ zpc = "off" /\ zTool = "none" /\ zYear = None /\ zMonth = None
    /\ zArgA = <<>> /\ zArgB = <<>> /\ zReqA = NoUrl /\ zReqB = NoUrl

SchedIdle ==
    /\ spc = "off" /\ sData = JNull /\ sToday = 0 /\ sNow = 0
    /\ sTool = "none" /\ sResult = NoResult

NoGot == Got("none", Absent, NoError)

SysIdle ==
    /\ apis = <<>> /\ conns = <<>> /\ pc = <<>> /\ op = <<>> /\ tUrl = <<>>
    /\ tApi = <<>> /\ tConn = <<>> /\ tResp = <<>> /\ tGot = <<>> /\ result = <<>>
    /\ netCalls = <<>> /\ lastOk = <<>> /\ closeCalls = <<>> /\ nOps = 0
    /\ actor = 0

\* ============================================================== SpecZone
Years == {2026}
Months == {2, 12}

ZoneInit ==
    /\ zpc = "called"
    /\ zTool \in ZoneTools
    /\ zYear \in Years
    /\ zMonth \in Months
    /\ zArgA \in Strings(MaxLen)
    /\ zArgB \in Strings(MaxLen)
    /\ zReqA = NoUrl
    /\ zReqB = NoUrl

\* Both invocations run up to their client.get(url).
BuildRequests ==
    /\ zpc = "called"
    /\ zReqA' = ToolUrl(zTool, zArgA, zYear, zMonth)
    /\ zReqB' = ToolUrl(zTool, zArgB, zYear, zMonth)
    /\ zpc' = "requested"
    /\ UNCHANGED <<zTool, zYear, zMonth, zArgA, zArgB, schedVars, sysVars>>

ZoneStart == ZoneInit /\ SchedIdle /\ SysIdle

SpecZone == ZoneStart /\ [][BuildRequests]_vars

\* ============================================================= SpecSched
Days == {1, 2}
Stamps == {0, 1800, 9000}
Nows == {1800, 7200}
ZoneName == <<"S", "1">>

Slots(n) == (1..n) \X {Kinds[k] : k \in 1..Len(Kinds)}

StampAt(f, slot) == IF slot \in DOMAIN f THEN f[slot] ELSE None

\* the day entry at position i: its day number, and the timestamps f gives it
MkEntry(i, days, f) ==
    [day |-> days[i],
     fajr |-> StampAt(f, <<i, "fajr">>), syuruk |-> StampAt(f, <<i, "syuruk">>),
     dhuhr |-> StampAt(f, <<i, "dhuhr">>), asr |-> StampAt(f, <<i, "asr">>),
     maghrib |-> StampAt(f, <<i, "maghrib">>), isha |-> StampAt(f, <<i, "isha">>)]

MkSchedule(n, days, f) ==
    JDict([zone |-> ZoneName, prayers |-> [i \in 1..n |-> MkEntry(i, days, f)]])

SchedInit ==
    /\ spc = "fetched"
    /\ sToday \in Days
    /\ sNow \in Nows
    /\ sTool = "none"
    /\ sResult = NoResult
    /\ \/ sData \in {JNull, JDict([zone |-> ZoneName])}
       \/ \E n \in 0..MaxEntries :
            \E S \in SUBSET Slots(n) :
                /\ Cardinality(S) <= MaxStamps
                /\ \E f \in [S -> Stamps] :
                     \E days \in [1..n -> Days] : sData = MkSchedule(n, days, f)

FormatToday ==
    /\ spc = "fetched"
    /\ sTool' = "get_prayer_times_today"
    /\ sResult' = TodayText(sData, ZoneName, sToday)
    /\ spc' = "done"
    /\ UNCHANGED <<sData, sToday, sNow, zoneVars, sysVars>>

FormatNext ==
    /\ spc = "fetched"
    /\ sTool' = "get_next_prayer"
    /\ sResult' = NextText(sData, ZoneName, sToday, sNow)
    /\ spc' = "done"
    /\ UNCHANGED <<sData, sToday, sNow, zoneVars, sysVars>>

FormatMonth ==
    /\ spc = "fetched"
    /\ sTool' = "get_prayer_times_month"
    /\ sResult' = MonthText(sData, ZoneName, 2026, 2)
    /\ spc' = "done"
    /\ UNCHANGED <<sData, sToday, sNow, zoneVars, sysVars>>

SchedNext == FormatToday \/ FormatNext \/ FormatMonth

SchedStart == SchedInit /\ ZoneIdle /\ SysIdle

SpecSched == SchedStart /\ [][SchedNext]_vars

\* ===================================================== Spec and SpecClient
\* ------------------------------------------------------------ the upstream
Z1 == JDict([jakimCode |-> "SGR01", negeri |-> "Selangor", daerah |-> "Gombak"])
Z2 == JDict([jakimCode |-> "WLY01", negeri |-> "Wilayah", daerah |-> "Putrajaya"])

ZoneBodies ==
    {JList(<<Z1, Z2>>), JDict([zones |-> JList(<<Z1>>)]), JDict([zones |-> JNull]),
     Z1, JNull}

EmptySchedule == JDict([zone |-> ZoneName, prayers |-> <<>>])

SchedBodies ==
    {MkSchedule(2, <<1, 2>>, (<<1, "fajr">> :> 1800) @@ (<<2, "fajr">> :> 9000)),
     EmptySchedule}

Responses(url) ==
    {HttpResponse(200, "OK", b) :
        b \in (IF url.path[1] = "zones" THEN ZoneBodies ELSE {EmptySchedule})
                 \cup {NotJson}}
    \cup {HttpResponse(204, "No Content", NotJson),
          HttpResponse(404, "Not Found", NotJson),
          TransportFailure}

\* the calls made on the client, with the URL each one fetches
ClientCalls ==
    {[name |-> "get_prayer_times", url |-> PrayerTimesUrl(<<"s", "1">>, None, None)],
     [name |-> "get_prayer_times", url |-> PrayerTimesUrl(<<"s", "1">>, 2026, 2)],
     [name |-> "get_zones", url |-> ZonesUrl(<<>>)]}

AllUrls == {c.url : c \in ClientCalls}

\* ------------------------------------------------------ WaktuSolatAPI object
\* __init__: no httpx client yet (0 is None), an empty cache
NewApiObject == [client |-> 0, cache |-> [u \in AllUrls |-> Absent]]

Tasks == DOMAIN pc

Bump(f, k) == [f EXCEPT ![k] = @ + 1]

\* _fetch up to its first suspension, on api a of apisNow with the httpx
\* clients connsNow.  A cache hit returns at once (got is "ok").  Otherwise
\* _get_client makes the httpx client if there is none and client.get(url) is
\* issued (sent; got stays "none" until the response); on a client that was
\* already closed httpx raises RuntimeError before anything is sent.
FetchStart(a, url, apisNow, connsNow) ==
    LET key == CacheKey(url)
        make == apisNow[a].client = 0
        cid == IF make THEN Len(connsNow) + 1 ELSE apisNow[a].client
        conns1 == IF make THEN Append(connsNow, TRUE) ELSE connsNow
    IN  IF apisNow[a].cache[key] # Absent
        THEN [got |-> Got("ok", apisNow[a].cache[key], NoError), sent |-> FALSE,
              conn |-> 0, apis |-> apisNow, conns |-> connsNow]
        ELSE [got |-> IF conns1[cid] THEN NoGot
                      ELSE Got("fault", Absent, [type |-> "RuntimeError"]),
              sent |-> conns1[cid],
              conn |-> cid,
              apis |-> [apisNow EXCEPT ![a].client = cid],
              conns |-> conns1]

\* _fetch from the arrival of the response on: raise, or decode, store, return
FetchFinish(a, url, resp) ==
    LET got == FetchOutcome(resp, url)
    IN  [got |-> got,
         apis |-> IF got.kind = "ok"
                  THEN [apis EXCEPT ![a].cache[CacheKey(url)] = got.data]
                  ELSE apis,
         lastOk |-> IF got.kind = "ok" THEN [lastOk EXCEPT ![url] = got.data]
                    ELSE lastOk]

\* close(), up to `await self._client.aclose()`: the httpx client, if there is
\* one, is closed
CloseStart(a, apisNow, connsNow) ==
    IF apisNow[a].client # 0 THEN [connsNow EXCEPT ![apisNow[a].client] = FALSE]
    ELSE connsNow

\* close(), after the await: self._client = None
CloseFinish(a) == [apis EXCEPT ![a].client = 0]

\* ------------------------------------------------------------- SpecClient
MaxOps == 3     \* operations the callers start in one run

ClientInit ==
    /\ apis = <<NewApiObject>>
    /\ conns = <<>>
    /\ pc = [t \in 1..MaxTasks |-> "idle"]
    /\ op = [t \in 1..MaxTasks |-> "none"]
    /\ tUrl = [t \in 1..MaxTasks |-> NoUrl]
    /\ tApi = [t \in 1..MaxTasks |-> 1]
    /\ tConn = [t \in 1..MaxTasks |-> 0]
    /\ tResp = [t \in 1..MaxTasks |-> NoResponse]
    /\ tGot = [t \in 1..MaxTasks |-> NoGot]
    /\ result = [t \in 1..MaxTasks |-> NoResult]
    /\ netCalls = [u \in AllUrls |-> 0]
    /\ lastOk = [u \in AllUrls |-> Absent]
    /\ closeCalls = <<0>>
    /\ nOps = 0
    /\ actor = 0

\* a caller awaits get_prayer_times(...) or get_zones(...)
CallFetch(t) ==
    /\ pc[t] \in {"idle", "returned"}
    /\ nOps < MaxOps
    /\ nOps' = nOps + 1
    /\ actor' = t
    /\ \E c \in ClientCalls :
        LET r == FetchStart(1, c.url, apis, conns)
        IN  /\ op' = [op EXCEPT ![t] = c.name]
            /\ tUrl' = [tUrl EXCEPT ![t] = c.url]
            /\ tConn' = [tConn EXCEPT ![t] = r.conn]
            /\ tResp' = [tResp EXCEPT ![t] = NoResponse]
            /\ tGot' = [tGot EXCEPT ![t] = r.got]
            /\ apis' = r.apis
            /\ conns' = r.conns
            /\ netCalls' = IF r.sent THEN Bump(netCalls, c.url) ELSE netCalls
            /\ pc' = [pc EXCEPT ![t] = IF r.sent THEN "awaiting" ELSE "returned"]
            /\ result' = [result EXCEPT ![t] =
                            IF r.sent THEN NoResult ELSE ResultOf(c.name, r.got)]
    /\ UNCHANGED <<tApi, lastOk, closeCalls, zoneVars, schedVars>>

\* the response of a caller's request arrives
ClientRespond(t) ==
    /\ pc[t] = "awaiting"
    /\ \E resp \in Responses(tUrl[t]) :
        LET f == FetchFinish(1, tUrl[t], resp)
        IN  /\ tResp' = [tResp EXCEPT ![t] = resp]
            /\ tGot' = [tGot EXCEPT ![t] = f.got]
            /\ apis' = f.apis
            /\ lastOk' = f.lastOk
            /\ result' = [result EXCEPT ![t] = ResultOf(op[t], f.got)]
    /\ pc' = [pc EXCEPT ![t] = "returned"]
    /\ UNCHANGED <<conns, op, tUrl, tApi, tConn, netCalls, closeCalls, nOps, actor,
                   zoneVars, schedVars>>

\* a caller awaits close()
CallClose(t) ==
    /\ pc[t] \in {"idle", "returned"}
    /\ nOps < MaxOps
    /\ nOps' = nOps + 1
    /\ actor' = t
    /\ op' = [op EXCEPT ![t] = "close"]
    /\ closeCalls' = Bump(closeCalls, 1)
    /\ conns' = CloseStart(1, apis, conns)
    /\ result' = [result EXCEPT ![t] = IF apis[1].client # 0 THEN NoResult
                                        ELSE Returned(JNull)]
    /\ pc' = [pc EXCEPT ![t] = IF apis[1].client # 0 THEN "closing" ELSE "returned"]
    /\ UNCHANGED <<apis, tUrl, tApi, tConn, tResp, tGot, netCalls, lastOk,
                   zoneVars, schedVars>>

\* aclose() is over: the caller's close() finishes
CallCloseFinish(t) ==
    /\ pc[t] = "closing"
    /\ apis' = CloseFinish(1)
    /\ result' = [result EXCEPT ![t] = Returned(JNull)]
    /\ pc' = [pc EXCEPT ![t] = "returned"]
    /\ UNCHANGED <<conns, op, tUrl, tApi, tConn, tResp, tGot, netCalls, lastOk,
                   closeCalls, nOps, actor, zoneVars, schedVars>>

ClientNext ==
    \/ \E t \in Tasks : CallFetch(t)
    \/ \E t \in Tasks : ClientRespond(t)
    \/ \E t \in Tasks : CallClose(t)
    \/ \E t \in Tasks : CallCloseFinish(t)

ClientStart == ClientInit /\ ZoneIdle /\ SchedIdle

SpecClient == ClientStart /\ [][ClientNext]_vars

\* ------------------------------------------------- claims under SpecClient
FetchOps == {"get_prayer_times", "get_zones"}

\* the step is the start of a fetch by task t (while no close() has been called)
StartsFetch(t) ==
    /\ closeCalls[1] = 0 /\ closeCalls' = closeCalls
    /\ nOps' = nOps + 1 /\ actor' = t

\* C1 (as stated): whatever the sequence or interleaving of fetches on one
\* client, fetches of one and the same URL issue at most one network call
\* between them, and every URL that was fetched got a network call of its own.
C1_Original ==
    closeCalls[1] = 0 =>
        /\ \A u \in AllUrls : netCalls[u] <= 1
        /\ \A t \in Tasks : pc[t] # "idle" /\ op[t] \in FetchOps => netCalls[tUrl[t]] >= 1

\* C1 (amended): with only fetches running on a client, a fetch of a URL for
\* which an earlier fetch has already completed successfully issues no network
\* call and returns the data stored last for that URL; every other fetch issues
\* exactly one network call, for its own URL.
C1_Amended ==
    [][\A t \in Tasks :
          StartsFetch(t) =>
              LET u == tUrl'[t]
              IN  IF lastOk[u] # Absent
                  THEN /\ netCalls' = netCalls
                       /\ pc'[t] = "returned"
                       /\ tGot'[t] = Got("ok", lastOk[u], NoError)
                  ELSE /\ netCalls' = Bump(netCalls, u)
                       /\ pc'[t] = "awaiting"]_vars

\* a fetch was served from the cache after one network call for its URL, and a
\* fetch of another URL went to the network
C1_Witness ==
    /\ closeCalls[1] = 0
    /\ \E t \in Tasks :
        /\ pc[t] = "returned" /\ op[t] \in FetchOps
        /\ tGot[t].kind = "ok" /\ tResp[t] = NoResponse
        /\ netCalls[tUrl[t]] = 1
        /\ \E u \in AllUrls \ {tUrl[t]} : netCalls[u] = 1

\* a fetch that has received an HTTP response and is over
Answered(t) == pc[t] = "returned" /\ op[t] \in FetchOps /\ tResp[t].kind = "http"

\* the call failed with a WaktuSolatAPIError carrying the response's status and reason
RaisedApiError(t) ==
    /\ result[t].status = "raised"
    /\ result[t].error.type = "WaktuSolatAPIError"
    /\ result[t].error.status = tResp[t].status
    /\ result[t].error.reason = tResp[t].reason

\* the call returned what was received (get_zones: its normalised form)
ReturnedReceived(t) ==
    /\ result[t].status = "returned"
    /\ result[t].value = IF op[t] = "get_zones" THEN ZonesOf(tResp[t].body)
                         ELSE tResp[t].body

IsSuccess(status) == status \in 200..299

C8_Claim ==
    \A t \in Tasks :
        (pc[t] = "returned" /\ op[t] = "get_zones" /\ tGot[t].kind = "ok") =>
            LET d == tGot[t].data
                v == result[t].value
            IN  /\ result[t].status = "returned"
                /\ v.t = "list"
                /\ d.t = "list" => v = d
                /\ (d.t = "dict" /\ "zones" \in DOMAIN d.f) => v = d.f.zones
                /\ (d.t = "dict" /\ "zones" \notin DOMAIN d.f) => v = JList(<<d>>)
                /\ d.t \notin {"list", "dict"} => v = JList(<<>>)

\* ==================================================================== Spec
\* Simultaneous tool invocations.  Each one runs
\*     zone = zone.strip().upper()
\*     async with get_api() as api:
\*         try: data = await api.<fetch>(...)
\*         except WaktuSolatAPIError as e: return f"Error: {e}"
\*     ... format data ...
\* and is suspended only in client.get (pc "awaiting") and in aclose (pc "closing").
ToolArg == <<"s", "1">>

ToolResponses(url) ==
    (IF url.path[1] = "zones"
     THEN {HttpResponse(200, "OK", JList(<<Z1, Z2>>)),
           HttpResponse(200, "OK", JDict([zones |-> JNull]))}
     ELSE {HttpResponse(200, "OK", b) : b \in SchedBodies})
    \cup {HttpResponse(404, "Not Found", NotJson), TransportFailure}

\* list_zones, after the client is released
ListZonesText(zones) ==
    IF zones.t = "null" \/ (zones.t = "list" /\ zones.items = <<>>)
    THEN Text([kind |-> "no_zones"])
    ELSE IF zones.t = "list" /\ \A i \in 1..Len(zones.items) : zones.items[i].t = "dict"
    THEN Text([kind |-> "zones",
               rows |-> [i \in 1..Len(zones.items) |->
                           [code |-> DictGet(zones.items[i], "jakimCode", ""),
                            negeri |-> DictGet(zones.items[i], "negeri", ""),
                            daerah |-> DictGet(zones.items[i], "daerah", "")]]])
    ELSE Fault("AttributeError")

\* what the invocation ends with, from how its fetch ended
ToolResult(tool, got, today, now_ts) ==
    IF got.kind = "apierror" THEN Text([kind |-> "error", message |-> got.error])
    ELSE IF got.kind = "fault" THEN Fault(got.error.type)
    ELSE CASE tool = "get_prayer_times_today" ->
                 TodayText(got.data, NormalizeZone(ToolArg), today)
           [] tool = "get_next_prayer" ->
                 NextText(got.data, NormalizeZone(ToolArg), today, now_ts)
           [] tool = "get_prayer_times_month" ->
                 MonthText(got.data, NormalizeZone(ToolArg), 2026, 2)
           [] OTHER -> ListZonesText(ZonesOf(got.data))

\* (faulty variant: one module-level client serves every invocation)
SharedApi(n) == 1

\* get_api(): api = WaktuSolatAPI(), the index of the object the
\* invocation works with when n objects exist already
NewApi(n) == n + 1

\* (faulty variant: `await api.close()` after the yield, without try/finally)
ReleasedUnlessFault(kind) == kind # "fault"

\* get_api(): try: yield api / finally: await api.close() -- whether the
\* block's exit of this kind (return, handled error, escaping exception)
\* reaches close()
Released(kind) == TRUE

ToolInit ==
    /\ apis = <<>>
    /\ conns = <<>>
    /\ pc = [t \in 1..MaxInv |-> "idle"]
    /\ op = [t \in 1..MaxInv |-> "none"]
    /\ tUrl = [t \in 1..MaxInv |-> NoUrl]
    /\ tApi = [t \in 1..MaxInv |-> 0]
    /\ tConn = [t \in 1..MaxInv |-> 0]
    /\ tResp = [t \in 1..MaxInv |-> NoResponse]
    /\ tGot = [t \in 1..MaxInv |-> NoGot]
    /\ result = [t \in 1..MaxInv |-> NoResult]
    /\ netCalls = [u \in AllUrls |-> 0]
    /\ lastOk = [u \in AllUrls |-> Absent]
    /\ closeCalls = <<>>
    /\ nOps = 0
    /\ actor = 0
    /\ spc = "off" /\ sData = JNull /\ sTool = "none" /\ sResult = NoResult
    /\ sToday \in {1}
    /\ sNow \in {1800}

\* The fetch of invocation t is over with `got`: the handler's except clause
\* and the exit of `async with`, which starts close(); without a httpx client
\* close() does not suspend and the invocation runs to its end.
Leave(t, a, tool, got, apisNow, connsNow, callsNow) ==
    LET closes == Released(got.kind)
        waits == closes /\ apisNow[a].client # 0
    IN  /\ apis' = apisNow
        /\ conns' = IF closes THEN CloseStart(a, apisNow, connsNow) ELSE connsNow
        /\ closeCalls' = IF closes THEN Bump(callsNow, a) ELSE callsNow
        /\ pc' = [pc EXCEPT ![t] = IF waits THEN "closing" ELSE "done"]
        /\ result' = [result EXCEPT ![t] =
                        IF waits THEN NoResult ELSE ToolResult(tool, got, sToday, sNow)]

\* a client calls a tool: the invocation runs up to its first suspension
Invoke(t) ==
    /\ pc[t] = "idle"
    /\ \E tool \in Tools :
        LET a == NewApi(Len(apis))
            fresh == a > Len(apis)
            apis0 == IF fresh THEN Append(apis, NewApiObject) ELSE apis
            calls0 == IF fresh THEN Append(closeCalls, 0) ELSE closeCalls
            url == ToolUrl(tool, IF tool = "list_zones" THEN <<>> ELSE ToolArg, 2026, 2)
            r == FetchStart(a, url, apis0, conns)
        IN  /\ op' = [op EXCEPT ![t] = tool]
            /\ tUrl' = [tUrl EXCEPT ![t] = url]
            /\ tApi' = [tApi EXCEPT ![t] = a]
            /\ tConn' = [tConn EXCEPT ![t] = r.conn]
            /\ tResp' = [tResp EXCEPT ![t] = NoResponse]
            /\ tGot' = [tGot EXCEPT ![t] = r.got]
            /\ netCalls' = IF r.sent THEN Bump(netCalls, url) ELSE netCalls
            /\ IF r.sent
               THEN /\ apis' = r.apis
                    /\ conns' = r.conns
                    /\ closeCalls' = calls0
                    /\ pc' = [pc EXCEPT ![t] = "awaiting"]
                    /\ UNCHANGED result
               ELSE Leave(t, a, tool, r.got, r.apis, r.conns, calls0)
    /\ UNCHANGED <<lastOk, nOps, actor, zoneVars, schedVars>>

\* the response of the invocation's request arrives: _fetch ends, the handler
\* leaves the `async with` block
ToolRespond(t) ==
    /\ pc[t] = "awaiting"
    /\ \E resp \in ToolResponses(tUrl[t]) :
        LET f == FetchFinish(tApi[t], tUrl[t], resp)
        IN  /\ tResp' = [tResp EXCEPT ![t] = resp]
            /\ tGot' = [tGot EXCEPT ![t] = f.got]
            /\ lastOk' = f.lastOk
            /\ Leave(t, tApi[t], op[t], f.got, f.apis, conns, closeCalls)
    /\ UNCHANGED <<op, tUrl, tApi, tConn, netCalls, nOps, actor, zoneVars, schedVars>>

\* aclose() is over: close() sets self._client = None, the invocation formats
\* its data and returns (or its exception leaves the tool)
ToolCloseFinish(t) ==
    /\ pc[t] = "closing"
    /\ apis' = CloseFinish(tApi[t])
    /\ result' = [result EXCEPT ![t] = ToolResult(op[t], tGot[t], sToday, sNow)]
    /\ pc' = [pc EXCEPT ![t] = "done"]
    /\ UNCHANGED <<conns, op, tUrl, tApi, tConn, tResp, tGot, netCalls, lastOk,
                   closeCalls, nOps, actor, zoneVars, schedVars>>

\* close() is called once more on the client of a finished invocation
Reclose(t) ==
    /\ pc[t] = "done"
    /\ closeCalls' = Bump(closeCalls, tApi[t])
    /\ conns' = CloseStart(tApi[t], apis, conns)
    /\ apis' = CloseFinish(tApi[t])
    /\ pc' = [pc EXCEPT ![t] = "reclosed"]
    /\ UNCHANGED <<op, tUrl, tApi, tConn, tResp, tGot, result, netCalls, lastOk,
                   nOps, actor, zoneVars, schedVars>>

Next ==
    \/ \E t \in Tasks : Invoke(t)
    \/ \E t \in Tasks : ToolRespond(t)
    \/ \E t \in Tasks : ToolCloseFinish(t)
    \/ \E t \in Tasks : Reclose(t)

Init == ToolInit /\ ZoneIdle

Spec == Init /\ [][Next]_vars

\* ------------------------------------------------------ claims under Spec
Finished(t) == pc[t] \in {"done", "reclosed"}

\* C2: every tool invocation ends with a text result, never with an exception
\* leaving the tool, whatever the upstream did; a fetch that failed is
\* reported as an "Error: ..." text.
C2_Claim ==
    \A t \in Tasks :
        Finished(t) =>
            /\ result[t].status = "text"
            /\ tGot[t].kind # "ok" => result[t].text.kind = "error"

\* C3: once an invocation has finished -- by a successful fetch, a handled
\* upstream error or an escaping exception -- close() has been called on its
\* client, the client holds no httpx client and the one its request went out
\* on is closed; a further close() on that client changes nothing.
C3_Released ==
    [][\A t \in Tasks :
          /\ Finished(t)' =>
                /\ closeCalls'[tApi'[t]] >= 1
                /\ apis'[tApi'[t]].client = 0
                /\ tConn'[t] # 0 => ~conns'[tConn'[t]]
          /\ (pc[t] = "done" /\ pc'[t] = "reclosed") => (apis' = apis /\ conns' = conns)
      ]_vars

\* the three exits have all been taken and released, and a client was closed twice
C3_Witness ==
    /\ \E t \in Tasks : Finished(t) /\ tGot[t].kind = "fault" /\ ~conns[tConn[t]]
    /\ \E t \in Tasks :
        /\ pc[t] = "reclosed" /\ tGot[t].kind \in {"ok", "apierror"}
        /\ closeCalls[tApi[t]] = 2 /\ apis[tApi[t]].client = 0

\* C10: simultaneous invocations never share a client or a cache: the data an
\* invocation works on is the body of its own response, and the httpx client
\* an invocation awaits its response on is open and is its own client's.
C10_Isolation ==
    /\ \A t1, t2 \in Tasks :
          (t1 # t2 /\ pc[t1] # "idle" /\ pc[t2] # "idle") => tApi[t1] # tApi[t2]
    /\ \A t \in Tasks :
          tGot[t].kind = "ok" => (tResp[t].kind = "http" /\ tGot[t].data = tResp[t].body)
    /\ \A t \in Tasks :
          pc[t] = "awaiting" => (conns[tConn[t]] /\ apis[tApi[t]].client = tConn[t])

\* one invocation has fetched a URL and released its client while another is
\* still awaiting its response for the same URL
C10_Witness ==
    \E t1, t2 \in Tasks :
        /\ t1 # t2 /\ tUrl[t1] = tUrl[t2]
        /\ pc[t1] = "awaiting" /\ conns[tConn[t1]]
        /\ pc[t2] = "done" /\ tGot[t2].kind = "ok"

\* ------------------------------------------------- claims under SpecSched
\* the schedule get_next_prayer / get_prayer_times_today worked on, and the
\* entry their lookup of `day` finds
SPrayers == IF sData.t = "dict" THEN DictGet(sData, "prayers", <<>>) ELSE <<>>
SDayHits(day) == {i \in 1..Len(SPrayers) : SPrayers[i].day = day}
SFirst(day) == CHOOSE i \in SDayHits(day) : \A j \in SDayHits(day) : i <= j

Upcoming(entry, k) == entry[Kinds[k]] # None /\ entry[Kinds[k]] > sNow

NextDone == spc = "done" /\ sTool = "get_next_prayer" /\ SDayHits(sToday) # {}

\* C5: when today's entry has a timestamp after now, get_next_prayer reports
\* the first kind in canonical order whose timestamp is present and after
\* now, whatever is absent or past before it.
C5_EarliestUpcoming ==
    (NextDone /\ \E k \in 1..Len(Kinds) : Upcoming(SPrayers[SFirst(sToday)], k)) =>
        LET e == SPrayers[SFirst(sToday)]
            k == CHOOSE k \in 1..Len(Kinds) :
                    Upcoming(e, k) /\ \A j \in 1..(k - 1) : ~Upcoming(e, j)
        IN  /\ sResult.status = "text"
            /\ sResult.text.kind = "next"
            /\ sResult.text.label = prayer_order[Kinds[k]]
            /\ sResult.text.at = TimestampToMytStr(e[Kinds[k]])

\* dawn is past, sunrise is absent, and noon is the one reported
C5_Witness ==
    /\ NextDone
    /\ SPrayers[SFirst(sToday)].fajr # None /\ SPrayers[SFirst(sToday)].fajr < sNow
    /\ SPrayers[SFirst(sToday)].syuruk = None
    /\ sResult.status = "text" /\ sResult.text.kind = "next"
    /\ sResult.text.label = "Zohor/Dhuhr"

AllPassed ==
    NextDone /\ \A k \in 1..Len(Kinds) : ~Upcoming(SPrayers[SFirst(sToday)], k)

\* C6 (as stated): with every prayer of today passed, the result is tomorrow's
\* dawn with the "today passed" prefix if the month has an entry for day
\* today+1 with a fajr timestamp, and the final fallback otherwise.
C6_Original ==
    AllPassed =>
        /\ sResult.status = "text"
        /\ IF \E j \in SDayHits(sToday + 1) : SPrayers[j].fajr # None
           THEN /\ sResult.text.kind = "tomorrow"
                /\ \E j \in SDayHits(sToday + 1) :
                      /\ SPrayers[j].fajr # None
                      /\ sResult.text.at = TimestampToMytStr(SPrayers[j].fajr)
           ELSE sResult.text.kind = "exhausted"

\* C6 (amended): ... if the first entry for day today+1 has a fajr timestamp
\* other than 0, the result is that entry's dawn and countdown with the "today
\* passed" prefix; otherwise (no such entry, its fajr absent or 0) the final
\* fallback.
C6_Amended ==
    AllPassed =>
        /\ sResult.status = "text"
        /\ IF SDayHits(sToday + 1) # {} /\ SPrayers[SFirst(sToday + 1)].fajr \notin {None, 0}
           THEN /\ sResult.text.kind = "tomorrow"
                /\ sResult.text.label = "Subuh/Fajr"
                /\ sResult.text.at = TimestampToMytStr(SPrayers[SFirst(sToday + 1)].fajr)
                /\ sResult.text.remaining =
                      RemainingStr(SPrayers[SFirst(sToday + 1)].fajr, sNow)
           ELSE sResult.text.kind = "exhausted"

\* today has a past timestamp and tomorrow's dawn is reported
C6_Witness ==
    /\ AllPassed
    /\ \E k \in 1..Len(Kinds) : SPrayers[SFirst(sToday)][Kinds[k]] # None
    /\ sResult.text.kind = "tomorrow"
    /\ sResult.text.remaining = <<2, 0>>

\* C7: without an entry for today, get_prayer_times_today returns the
\* fallback naming the day range 1..M, M the largest day number of the
\* entries, and 28 for an empty list.
C7_Claim ==
    (spc = "done" /\ sTool = "get_prayer_times_today" /\ sData.t = "dict"
        /\ SDayHits(sToday) = {}) =>
        /\ sResult.status = "text"
        /\ sResult.text.kind = "no_today"
        /\ sResult.text.lastDay =
              IF SPrayers = <<>> THEN 28
              ELSE CHOOSE m \in {SPrayers[i].day : i \in 1..Len(SPrayers)} :
                      \A i \in 1..Len(SPrayers) : SPrayers[i].day <= m

\* -------------------------------------------------- claims under SpecZone
Lowercase == {"s"}

\* s without its leading and trailing whitespace
Core(s) ==
    LET ix == {i \in 1..Len(s) : s[i] \notin Whitespace}
    IN  IF ix = {} THEN <<>>
        ELSE SubSeq(s, CHOOSE i \in ix : \A j \in ix : i <= j,
                       CHOOSE i \in ix : \A j \in ix : j <= i)

SameUpToCase(a, b) ==
    /\ Len(a) = Len(b)
    /\ \A i \in 1..Len(a) : a[i] = b[i] \/ {a[i], b[i]} = {"s", "S"}

\* a and b differ at most in letter case and surrounding whitespace
SameZone(a, b) == SameUpToCase(Core(a), Core(b))

\* C9: zone arguments that differ only in letter case or surrounding
\* whitespace produce the same request; its path carries the argument
\* trimmed and in upper case; a code in that form is requested as it is.
C9_SameRequest ==
    zpc = "requested" =>
        /\ SameZone(zArgA, zArgB) => zReqA = zReqB
        /\ LET code == zReqA.path[3]
           IN  /\ SameUpToCase(code, Core(zArgA))
               /\ \A i \in 1..Len(code) : code[i] \notin Lowercase
               /\ ToolUrl(zTool, code, zYear, zMonth) = zReqA

\* " s" and "S " end in the same request
C9_Witness ==
    /\ zpc = "requested"
    /\ zArgA = <<" ", "s">> /\ zArgB = <<"S", " ">>
    /\ zReqA = zReqB /\ zReqA.path[3] = <<"S">>

====
